---- MODULE Spec2Model ----
(***************************************************************************)
(* Cross-exchange arbitrage monitor: spread calculation                    *)
(* (spread_engine/calc.py), alert routing (alert_router/router.py,         *)
(* alert_router/webhook.py), configuration (config/manager.py) and the     *)
(* monitoring loop (monitor/pipeline.py).                                  *)
(*                                                                         *)
(* Units.  Python floats are modelled by exact integers:                   *)
(*   - an order-book price p stands for p * 10000 JPY;                     *)
(*   - taker_percent t stands for the fraction t / 10000;                  *)
(*   - withdrawal fees, gross_spread and net_spread are in JPY;            *)
(*   - sizes and volumes are in units of 0.01 BTC;                         *)
(*   - datetime.utcnow() is the integer clock `now` (seconds).             *)
(* Strings are TLA+ strings, so the dedup key is a real concatenation.     *)
(***************************************************************************)
EXTENDS Integers, Sequences, FiniteSets, TLC

\* ------------------------------------------------------------------------
\* Bounds of the model
\* ------------------------------------------------------------------------
MaxTime == 4
MaxCycles == 2
MaxSendDelay == 1

\* ------------------------------------------------------------------------
\* spread_engine/calc.py
\* ------------------------------------------------------------------------
NoneVal == [kind |-> "None"]

FeeProfile(taker, withdrawal) == [taker_percent |-> taker, withdrawal_fee |-> withdrawal]

DEFAULT_FEE_PROFILE == FeeProfile(20, 0)

DEFAULT_FEES ==
    [e \in {"bitFlyer", "Coincheck", "bitbank"} |->
        CASE e = "bitFlyer"  -> FeeProfile(3, 100)
          [] e = "Coincheck" -> FeeProfile(10, 250)
          [] e = "bitbank"   -> FeeProfile(20, 120)]

\* SpreadCalculator.__init__: `fees or DEFAULT_FEES` (an empty dict is falsy)
SpreadCalculator(fees_arg) ==
    IF fees_arg = NoneVal \/ DOMAIN fees_arg = {} THEN DEFAULT_FEES ELSE fees_arg

\* slip: the sides of the book mixed up
_top_level_swapped(order_book, side) ==
    LET levels == IF side = "bid" THEN order_book.asks ELSE order_book.bids
    IN  IF levels # <<>> THEN levels[1] ELSE NoneVal

_top_level(order_book, side) ==
    LET levels == IF side = "bid" THEN order_book.bids ELSE order_book.asks
    IN  IF levels # <<>> THEN levels[1] ELSE NoneVal

_fee_profile(calc_fees, exchange) ==
    IF exchange \in DOMAIN calc_fees THEN calc_fees[exchange] ELSE DEFAULT_FEE_PROFILE

\* slip: the larger of the two sizes
Min_larger(a, b) == IF a <= b THEN b ELSE a

Min(a, b) == IF a <= b THEN a ELSE b

\* slip: the withdrawal fees left out
NetSpread_without_withdrawal(buy_price, sell_price, buy_fee, sell_fee) ==
    sell_price * (10000 - sell_fee.taker_percent)
      - buy_price * (10000 + buy_fee.taker_percent)

\* net = sell_gain - (buy_price + buy_cost) - withdrawal fees, in JPY
NetSpread(buy_price, sell_price, buy_fee, sell_fee) ==
    sell_price * (10000 - sell_fee.taker_percent)
      - buy_price * (10000 + buy_fee.taker_percent)
      - buy_fee.withdrawal_fee - sell_fee.withdrawal_fee

evaluate(calc_fees, buy_ticker, buy_order_book, sell_ticker, sell_order_book) ==
    IF buy_ticker.product # sell_ticker.product THEN NoneVal
    ELSE
    LET buy_level  == _top_level(buy_order_book, "ask")
        sell_level == _top_level(sell_order_book, "bid")
    IN  IF buy_level = NoneVal \/ sell_level = NoneVal THEN NoneVal
        ELSE
        LET buy_price  == buy_level.price
            sell_price == sell_level.price
            volume     == Min(buy_level.size, sell_level.size)
        IN  IF volume <= 0 \/ sell_price <= buy_price THEN NoneVal
            ELSE
            LET buy_fee  == _fee_profile(calc_fees, buy_ticker.exchange)
                sell_fee == _fee_profile(calc_fees, sell_ticker.exchange)
                gross    == (sell_price - buy_price) * 10000
                net      == NetSpread(buy_price, sell_price, buy_fee, sell_fee)
            IN  IF net <= 0 THEN NoneVal
                ELSE [buy_exchange     |-> buy_ticker.exchange,
                      sell_exchange    |-> sell_ticker.exchange,
                      product          |-> buy_ticker.product,
                      best_buy_price   |-> buy_price,
                      best_sell_price  |-> sell_price,
                      gross_spread     |-> gross,
                      net_spread       |-> net,
                      available_volume |-> volume,
                      metadata         |->
                         [buy_fee_percent     |-> buy_fee.taker_percent,
                          sell_fee_percent    |-> sell_fee.taker_percent,
                          buy_withdrawal_fee  |-> buy_fee.withdrawal_fee,
                          sell_withdrawal_fee |-> sell_fee.withdrawal_fee]]

\* ------------------------------------------------------------------------
\* alert_router/router.py, alert_router/webhook.py
\* ------------------------------------------------------------------------
AlertRule(mns, mv, cd) == [min_net_spread |-> mns, min_volume |-> mv, cooldown_seconds |-> cd]

OpportunityAlert(opp, recorded_at) ==
    [buy_exchange     |-> opp.buy_exchange,
     sell_exchange    |-> opp.sell_exchange,
     product          |-> opp.product,
     net_spread       |-> opp.net_spread,
     gross_spread     |-> opp.gross_spread,
     available_volume |-> opp.available_volume,
     recorded_at      |-> recorded_at]

\* slip: a key that drops the exchanges
_key_product_only(alert) == alert.product

_key(alert) == alert.product \o ":" \o alert.buy_exchange \o "->" \o alert.sell_exchange

\* slip: the volume threshold left out
_passes_threshold_net_only(r, alert) ==
    IF alert.net_spread < r.min_net_spread THEN FALSE
    ELSE TRUE

_passes_threshold(r, alert) ==
    IF alert.net_spread < r.min_net_spread THEN FALSE
    ELSE IF alert.available_volume < r.min_volume THEN FALSE
    ELSE TRUE

\* slip: the comparison turned around
_under_cooldown_flipped(r, ls, key, t) ==
    IF key \notin DOMAIN ls THEN FALSE
    ELSE (t - ls[key]) > r.cooldown_seconds

_under_cooldown(r, ls, key, t) ==
    IF key \notin DOMAIN ls THEN FALSE
    ELSE (t - ls[key]) < r.cooldown_seconds

\* Outcome of channel.send: only WebhookChannel.send can raise
\* (non-2xx status, HTTPError, URLError); Console and Slack stub print.
CanFail(chs) == {i \in 1..Len(chs) : chs[i] = "WebhookChannel"}

\* The index of the channel whose send raises first (0: none raises)
FirstFailure(chs, fails) ==
    IF \E i \in 1..Len(chs) : i \in fails
    THEN CHOOSE i \in 1..Len(chs) : i \in fails /\ \A j \in 1..(i - 1) : j \notin fails
    ELSE 0

\* Labels passed to record_alert while channel i is served without raising:
\* WebhookChannel.send counts itself on a 2xx answer, then handle counts the
\* channel's class name.
RecordedFor(ch) ==
    IF ch = "WebhookChannel" THEN <<"WebhookChannel", "WebhookChannel">> ELSE <<ch>>

RECURSIVE RecordedUpTo(_, _)
RecordedUpTo(chs, n) ==
    IF n = 0 THEN <<>> ELSE RecordedUpTo(chs, n - 1) \o RecordedFor(chs[n])

\* slip: a cooldown rejection restarts the key's window
handle_refreshing(r, chs, ls, alert, t0, d, fails) ==
    IF ~ _passes_threshold(r, alert)
    THEN [returned |-> "False", sent |-> <<>>, recorded |-> <<>>, last_sent |-> ls, finished |-> t0]
    ELSE
    LET key == _key(alert) IN
    IF _under_cooldown(r, ls, key, t0)
    THEN [returned |-> "False", sent |-> <<>>, recorded |-> <<>>,
          last_sent |-> [ls EXCEPT ![key] = t0], finished |-> t0]
    ELSE
    LET f == FirstFailure(chs, fails) IN
    IF f # 0
    THEN [returned  |-> "raised",
          sent      |-> SubSeq(chs, 1, f),
          recorded  |-> RecordedUpTo(chs, f - 1),
          last_sent |-> ls,
          finished  |-> t0 + d]
    ELSE [returned  |-> "True",
          sent      |-> chs,
          recorded  |-> RecordedUpTo(chs, Len(chs)),
          last_sent |-> [k \in DOMAIN ls \cup {key} |-> IF k = key THEN t0 + d ELSE ls[k]],
          finished  |-> t0 + d]

\* AlertRouter.handle, called at clock t0; the sends take d seconds and
\* `fails` is the set of channels whose send raises in this call.
\* returned: "True", "False", or "raised" (an exception leaves handle).
\* sent: the channels on which send was invoked, in order.
handle(r, chs, ls, alert, t0, d, fails) ==
    IF ~ _passes_threshold(r, alert)
    THEN [returned |-> "False", sent |-> <<>>, recorded |-> <<>>, last_sent |-> ls, finished |-> t0]
    ELSE
    LET key == _key(alert) IN
    IF _under_cooldown(r, ls, key, t0)
    THEN [returned |-> "False", sent |-> <<>>, recorded |-> <<>>, last_sent |-> ls, finished |-> t0]
    ELSE
    LET f == FirstFailure(chs, fails) IN
    IF f # 0
    THEN [returned  |-> "raised",
          sent      |-> SubSeq(chs, 1, f),
          recorded  |-> RecordedUpTo(chs, f - 1),
          last_sent |-> ls,
          finished  |-> t0 + d]
    ELSE [returned  |-> "True",
          sent      |-> chs,
          recorded  |-> RecordedUpTo(chs, Len(chs)),
          last_sent |-> [k \in DOMAIN ls \cup {key} |-> IF k = key THEN t0 + d ELSE ls[k]],
          finished  |-> t0 + d]

\* ------------------------------------------------------------------------
\* State
\* ------------------------------------------------------------------------
VARIABLES
    rule,          \* AlertRouter.rule
    channels,      \* AlertRouter.channels: class names, in configured order
    last_sent,     \* AlertRouter.last_sent: dedup key -> datetime
    now,           \* datetime.utcnow()
    handled,       \* observation: the latest AlertRouter.handle call
    okAt,          \* observation: triple -> end of its latest dispatch that returned True
    attempts,      \* observation: triple -> its latest dispatch attempt under this rule
    running,       \* MonitoringPipeline.running
    pc,            \* position of run_continuous
    clients,       \* MonitoringPipeline.clients
    cfg_file,      \* content of the configuration file
    cm_config,     \* ConfigManager._config
    calc_fees,     \* MonitoringPipeline.calculator.fees
    tickers,       \* tickers of the current cycle: exchange -> NormalizedTicker
    order_books,   \* order books of the current cycle: exchange -> NormalizedOrderBook
    opportunities, \* opportunities of the current cycle
    cyc,           \* observation: what happened in the current cycle
    cycles,        \* number of cycles started
    stop_pending,  \* observation: stop() was called and no cycle has begun since
    ev_in,         \* arguments of a direct SpreadCalculator.evaluate call
    ev_out,        \* its result
    wh_headers,    \* WebhookChannel.headers: <<key, value>> pairs in dict order
    wh_requests,   \* the requests WebhookChannel.send has handed to urlopen
    heap,          \* the AlertRule and FeeProfile objects in memory: id -> fields
    managers,      \* ConfigManager._config of the pipeline's and of the API's manager
    held,          \* ids of router.rule and of the profiles in calculator.fees
    cfg_pc,        \* the pipeline with object identities: "idle" or "cycle"
    config_json    \* content of config.json shared by the two managers

routerVars == <<rule, channels, last_sent>>
obsVars    == <<handled, okAt, attempts>>
pipeVars   == <<running, pc, clients, cfg_file, cm_config, calc_fees,
                tickers, order_books, opportunities, cyc, cycles, stop_pending>>
calcVars   == <<ev_in, ev_out>>
webVars    == <<wh_headers, wh_requests>>
objVars    == <<heap, managers, held, cfg_pc, config_json>>
sideVars   == <<webVars, objVars>>
vars       == <<rule, channels, last_sent, now, handled, okAt, attempts,
                running, pc, clients, cfg_file, cm_config, calc_fees,
                tickers, order_books, opportunities, cyc, cycles, stop_pending,
                ev_in, ev_out, wh_headers, wh_requests,
                heap, managers, held, cfg_pc, config_json>>

EmptyMap == [k \in {} |-> 0]

\* ------------------------------------------------------------------------
\* Inputs
\* ------------------------------------------------------------------------
\* Alert rules an operator can configure (AppConfig / command line)
Rules ==
    { AlertRule(1000, 1, 2), AlertRule(1000, 1, 0), AlertRule(25000, 1, 3) }

\* Channel lists: the pipeline's with a webhook ([Console, Webhook]), the
\* demo's ([Console, SlackStub]) and a router built with the webhook first.
ChannelConfigs ==
    { <<"ConsoleChannel", "WebhookChannel">>,
      <<"ConsoleChannel", "SlackChannelStub">>,
      <<"WebhookChannel", "ConsoleChannel">> }

\* Alerts handed to a router directly
RouterAlerts(t) ==
    { [buy_exchange     |-> b,
       sell_exchange    |-> s,
       product          |-> "BTC_JPY",
       net_spread       |-> nv[1],
       gross_spread     |-> 30000,
       available_volume |-> nv[2],
       recorded_at      |-> t] :
      b \in {"bitFlyer", "Coincheck"}, s \in {"bitFlyer", "Coincheck"},
      nv \in {<<500, 1>>, <<23120, 1>>, <<25000, 1>>, <<25000, 0>>} }

\* ------------------------------------------------------------------------
\* Observations of a handle call
\* ------------------------------------------------------------------------
\* the (product, buy exchange, sell exchange) triple of an alert
Triple(alert) == <<alert.product, alert.buy_exchange, alert.sell_exchange>>

\* what the latest handle call was given and what it did (recorded: the
\* labels passed to record_alert during the call); n alternates so
\* that every call yields a new observation
Observe(prev, alert, out, r) ==
    [triple   |-> Triple(alert),
     passes   |-> (alert.net_spread >= r.min_net_spread
                     /\ alert.available_volume >= r.min_volume),
     returned |-> out.returned,
     sent     |-> out.sent,
     recorded |-> out.recorded,
     n        |-> IF prev = NoneVal THEN 0 ELSE 1 - prev.n]

\* triple -> the time at which its latest complete dispatch (True returned) ended
ObserveOk(ok, alert, out) ==
    IF out.returned = "True"
    THEN [k \in DOMAIN ok \cup {Triple(alert)} |->
            IF k = Triple(alert) THEN out.finished ELSE ok[k]]
    ELSE ok

\* triple -> the latest call that invoked a send for it, under the present rule
ObserveAttempt(att, alert, out) ==
    IF out.sent # <<>>
    THEN [k \in DOMAIN att \cup {Triple(alert)} |->
            IF k = Triple(alert)
            THEN [finished |-> out.finished, returned |-> out.returned]
            ELSE att[k]]
    ELSE att

\* ------------------------------------------------------------------------
\* The router driven directly (as alert_router/demo.py does)
\* ------------------------------------------------------------------------
PipeIdle ==
    /\ running = FALSE
    /\ pc = "idle"
    /\ clients = <<>>
    /\ cfg_file = NoneVal
    /\ cm_config = NoneVal
    /\ calc_fees = DEFAULT_FEES
    /\ tickers = EmptyMap
    /\ order_books = EmptyMap
    /\ opportunities = <<>>
    /\ cyc = NoneVal
    /\ cycles = 0
    /\ stop_pending = FALSE

CalcIdle ==
    /\ ev_in = NoneVal
    /\ ev_out = NoneVal

RouterIdle ==
    /\ rule = AlertRule(1000, 1, 180)
    /\ channels = <<"ConsoleChannel">>
    /\ last_sent = EmptyMap
    /\ now = 0
    /\ handled = NoneVal
    /\ okAt = EmptyMap
    /\ attempts = EmptyMap

WebIdle ==
    /\ wh_headers = NoneVal
    /\ wh_requests = <<>>

ObjIdle ==
    /\ heap = <<>>
    /\ managers = NoneVal
    /\ held = NoneVal
    /\ cfg_pc = "idle"
    /\ config_json = NoneVal

SideIdle == WebIdle /\ ObjIdle

InitRouter ==
    /\ rule \in Rules
    /\ channels \in ChannelConfigs
    /\ last_sent = EmptyMap
    /\ now = 0
    /\ handled = NoneVal
    /\ okAt = EmptyMap
    /\ attempts = EmptyMap
    /\ PipeIdle
    /\ CalcIdle
    /\ SideIdle

\* router.handle(alert)
Handle ==
    \E alert \in RouterAlerts(now), d \in 0..MaxSendDelay, fails \in SUBSET CanFail(channels) :
        LET out == handle(rule, channels, last_sent, alert, now, d, fails) IN
        /\ alert.buy_exchange # alert.sell_exchange
        /\ now + d <= MaxTime
        /\ last_sent' = out.last_sent
        /\ now' = out.finished
        /\ handled' = Observe(handled, alert, out, rule)
        /\ okAt' = ObserveOk(okAt, alert, out)
        /\ attempts' = ObserveAttempt(attempts, alert, out)
        /\ UNCHANGED <<rule, channels, pipeVars, calcVars, sideVars>>

\* slip: the rule comes with a new, empty cooldown map
SetRule_clearing ==
    \E r \in Rules :
        /\ r # rule
        /\ rule' = r
        /\ last_sent' = EmptyMap
        /\ attempts' = EmptyMap
        /\ UNCHANGED <<channels, now, handled, okAt, pipeVars, calcVars, sideVars>>

\* router.rule = <new rule>  (what reload_config does to a router)
SetRule ==
    \E r \in Rules :
        /\ r # rule
        /\ rule' = r
        /\ attempts' = EmptyMap
        /\ UNCHANGED <<channels, last_sent, now, handled, okAt, pipeVars, calcVars, sideVars>>

\* time passes
Tick ==
    /\ now < MaxTime
    /\ now' = now + 1
    /\ UNCHANGED <<routerVars, obsVars, pipeVars, calcVars, sideVars>>

NextRouter == Handle \/ SetRule \/ Tick

SpecRouter == InitRouter /\ [][NextRouter]_vars

\* ------------------------------------------------------------------------
\* A router handed alerts whose names are arbitrary strings (OpportunityAlert
\* takes any str; exchange names come from the clients' `name` attributes)
\* ------------------------------------------------------------------------
NamedAlerts(t) ==
    { [buy_exchange     |-> bs[1],
       sell_exchange    |-> bs[2],
       product          |-> "BTC_JPY",
       net_spread       |-> 25000,
       gross_spread     |-> 30000,
       available_volume |-> 1,
       recorded_at      |-> t] :
      bs \in { <<"X", "Y->Z">>, <<"X->Y", "Z">>, <<"X", "Z">>, <<"Z", "X">> } }

InitKey ==
    /\ rule = AlertRule(1000, 1, 2)
    /\ channels = <<"ConsoleChannel">>
    /\ last_sent = EmptyMap
    /\ now = 0
    /\ handled = NoneVal
    /\ okAt = EmptyMap
    /\ attempts = EmptyMap
    /\ PipeIdle
    /\ CalcIdle
    /\ SideIdle

\* router.handle(alert), the console channel never raising
HandleNamed ==
    \E alert \in NamedAlerts(now) :
        LET out == handle(rule, channels, last_sent, alert, now, 0, {}) IN
        /\ last_sent' = out.last_sent
        /\ handled' = Observe(handled, alert, out, rule)
        /\ okAt' = ObserveOk(okAt, alert, out)
        /\ attempts' = ObserveAttempt(attempts, alert, out)
        /\ UNCHANGED <<rule, channels, now, pipeVars, calcVars, sideVars>>

NextKey == HandleNamed \/ Tick

SpecKey == InitKey /\ [][NextKey]_vars

\* C27: two alerts share a cooldown bucket only if they have the same
\* (product, buy_exchange, sell_exchange) triple, whatever the strings: an
\* alert that passes the thresholds is held back only if its own triple was
\* dispatched before, and the map has one key per dispatched triple.
C27_BucketPerTriple ==
    /\ (handled # NoneVal /\ handled.passes /\ handled.returned = "False")
          => handled.triple \in DOMAIN okAt
    /\ Cardinality(DOMAIN last_sent) = Cardinality(DOMAIN okAt)

\* ------------------------------------------------------------------------
\* alert_router/webhook.py: WebhookChannel built with caller-supplied headers
\* ------------------------------------------------------------------------
MaxRequests == 2

\* a dict as the sequence of its items in insertion order
HasKey(items, key) == \E i \in DOMAIN items : items[i][1] = key

\* dict.setdefault(key, value)
setdefault(items, key, value) ==
    IF HasKey(items, key) THEN items ELSE Append(items, <<key, value>>)

\* dicts a caller passes as `headers`
HeaderDicts ==
    { <<>>,
      << <<"Authorization", "Bearer t">> >>,
      << <<"Content-Type", "application/json">> >>,
      << <<"Content-Type", "text/plain">> >>,
      << <<"content-type", "text/plain">> >>,
      << <<"Authorization", "Bearer t">>, <<"Content-Type", "text/plain">> >>,
      << <<"X-Token", "t">>, <<"CONTENT-TYPE", "application/xml">> >> }

\* `headers` arguments of WebhookChannel(url, headers=...): None, or a dict
HeaderArgs ==
    {[is_none |-> TRUE, items |-> <<>>]}
      \cup {[is_none |-> FALSE, items |-> h] : h \in HeaderDicts}

\* WebhookChannel.__init__: `headers or {}` (None and an empty dict give a new
\* dict), then setdefault("Content-Type", "application/json")
WebhookChannel(headers) ==
    setdefault(IF headers.is_none \/ headers.items = <<>> THEN <<>> ELSE headers.items,
               "Content-Type", "application/json")

\* str.capitalize() of the header names in use (urllib.request.Request
\* stores every header under key.capitalize())
capitalize(key) ==
    CASE key \in {"Content-Type", "content-type", "CONTENT-TYPE"} -> "Content-type"
      [] key = "Authorization" -> "Authorization"
      [] key = "X-Token" -> "X-token"

\* urllib.request.Request(url, data, headers=items, method="POST"): add_header
\* for every item in order, a later item replacing an earlier one of the same
\* capitalized name
Request(items) ==
    [k \in {capitalize(items[i][1]) : i \in DOMAIN items} |->
        LET last == CHOOSE i \in DOMAIN items :
                       /\ capitalize(items[i][1]) = k
                       /\ \A j \in DOMAIN items : capitalize(items[j][1]) = k => j <= i
        IN  items[last][2]]

\* what urlopen does with a request: a 2xx answer, an HTTPError (any other
\* status) or a URLError
WebhookOutcomes == {"200", "204", "HTTPError", "URLError"}

WebhookAlerts ==
    { a \in RouterAlerts(0) : a.net_spread = 25000 /\ a.buy_exchange # a.sell_exchange }

InitWebhook ==
    /\ \E headers \in HeaderArgs : wh_headers = WebhookChannel(headers)
    /\ wh_requests = <<>>
    /\ RouterIdle
    /\ PipeIdle
    /\ CalcIdle
    /\ ObjIdle

\* WebhookChannel.send(alert)
Send ==
    \E alert \in WebhookAlerts, outcome \in WebhookOutcomes :
        /\ Len(wh_requests) < MaxRequests
        /\ wh_requests' = Append(wh_requests,
              [method   |-> "POST",
               headers  |-> Request(wh_headers),
               payload  |-> [event_type       |-> "arbitrage_opportunity",
                             buy_exchange     |-> alert.buy_exchange,
                             sell_exchange    |-> alert.sell_exchange,
                             product          |-> alert.product,
                             net_spread       |-> alert.net_spread,
                             gross_spread     |-> alert.gross_spread,
                             available_volume |-> alert.available_volume,
                             recorded_at      |-> alert.recorded_at],
               raised   |-> outcome \notin {"200", "204"}])
        /\ UNCHANGED <<wh_headers, routerVars, now, obsVars, pipeVars, calcVars, objVars>>

NextWebhook == Send

SpecWebhook == InitWebhook /\ [][NextWebhook]_vars

\* C23: every request sent by the webhook channel carries the header
\* Content-Type: application/json, whatever headers the caller supplied;
\* caller-supplied headers are added but never replace that value.
C23_ContentTypeIsJson ==
    \A i \in DOMAIN wh_requests :
        /\ "Content-type" \in DOMAIN wh_requests[i].headers
        /\ wh_requests[i].headers["Content-type"] = "application/json"

\* ------------------------------------------------------------------------
\* SpreadCalculator.evaluate called directly
\* ------------------------------------------------------------------------
Level(price, size) == [price |-> price, size |-> size]

\* ask sides (best, i.e. lowest, price first) and bid sides (highest first);
\* _normalize_levels keeps every level whose price and size parse as floats,
\* a price of 0 included
AskSides ==
    { <<>>, <<Level(500, 5)>>, <<Level(501, 3)>>, <<Level(501, 0)>>,
      <<Level(503, 3)>>, <<Level(500, 3), Level(503, 5)>>, <<Level(0, 3)>> }

BidSides ==
    { <<>>, <<Level(503, 3)>>, <<Level(501, 5)>>, <<Level(501, 0)>>,
      <<Level(500, 5)>>, <<Level(503, 5), Level(500, 3)>> }

NormalizedTicker(exchange, product) == [exchange |-> exchange, product |-> product]

NormalizedOrderBook(exchange, product, bids, asks) ==
    [exchange |-> exchange, product |-> product, bids |-> bids, asks |-> asks]

\* fee maps handed to SpreadCalculator(fees=...)
FeeArgs ==
    { NoneVal, EmptyMap,
      [e \in {"bitFlyer"} |-> FeeProfile(0, 0)] }

EvalInputs ==
    { [fees_arg    |-> f,
       buy_ticker  |-> NormalizedTicker(be, "BTC_JPY"),
       buy_book    |-> NormalizedOrderBook(be, "BTC_JPY", bb, ba),
       sell_ticker |-> NormalizedTicker(se, sp),
       sell_book   |-> NormalizedOrderBook(se, sp, sb, sa)] :
      f \in FeeArgs,
      be \in {"bitFlyer", "bitbank"}, se \in {"bitFlyer", "Coincheck", "Zaif"},
      sp \in {"BTC_JPY", "ETH_JPY"},
      bb \in BidSides, ba \in AskSides, sb \in BidSides, sa \in AskSides }

Pending == [kind |-> "pending"]

InitCalc ==
    /\ ev_in \in EvalInputs
    /\ ev_out = Pending
    /\ RouterIdle
    /\ PipeIdle
    /\ SideIdle

\* result = SpreadCalculator(fees).evaluate(buy_ticker, buy_book, sell_ticker, sell_book)
Evaluate ==
    /\ ev_out = Pending
    /\ ev_out' = evaluate(SpreadCalculator(ev_in.fees_arg), ev_in.buy_ticker, ev_in.buy_book,
                          ev_in.sell_ticker, ev_in.sell_book)
    /\ UNCHANGED <<ev_in, routerVars, now, obsVars, pipeVars, sideVars>>

NextCalc == Evaluate

SpecCalc == InitCalc /\ [][NextCalc]_vars

\* ------------------------------------------------------------------------
\* Properties of evaluate (checked under SpecCalc)
\* ------------------------------------------------------------------------
Evaluated == ev_in # NoneVal /\ ev_out # Pending

\* C10: evaluate returns none when the best ask of the buy book is >= the best
\* bid of the sell book (whatever the fees), when the buy book has no ask or
\* the sell book no bid, and when the products of the two tickers differ.
C10_RejectsWithoutGrossSpread ==
    (Evaluated
       /\ \/ ev_in.buy_ticker.product # ev_in.sell_ticker.product
          \/ ev_in.buy_book.asks = <<>>
          \/ ev_in.sell_book.bids = <<>>
          \/ ev_in.buy_book.asks[1].price >= ev_in.sell_book.bids[1].price)
      => ev_out = NoneVal

\* C10 witness: same product, both sides present with positive sizes, equal
\* best prices, a zero-fee profile on the buy side, and evaluate returned none.
C10_Witness ==
    /\ Evaluated
    /\ ev_out = NoneVal
    /\ ev_in.buy_ticker.product = ev_in.sell_ticker.product
    /\ ev_in.buy_book.asks # <<>> /\ ev_in.sell_book.bids # <<>>
    /\ ev_in.buy_book.asks[1].price = ev_in.sell_book.bids[1].price
    /\ ev_in.buy_book.asks[1].size > 0 /\ ev_in.sell_book.bids[1].size > 0
    /\ ev_in.fees_arg # NoneVal /\ DOMAIN ev_in.fees_arg # {}

\* the opportunity-independent reading of a call's arguments
BuyAsk  == ev_in.buy_book.asks[1]
SellBid == ev_in.sell_book.bids[1]
Returned == Evaluated /\ ev_out # NoneVal
BuyFee  == _fee_profile(SpreadCalculator(ev_in.fees_arg), ev_in.buy_ticker.exchange)
SellFee == _fee_profile(SpreadCalculator(ev_in.fees_arg), ev_in.sell_ticker.exchange)

\* C11: every SpreadOpportunity returned by evaluate has best_sell_price >
\* best_buy_price, net_spread > 0, and available_volume equal to the smaller
\* of the size of the first ask of the buy book and the size of the first bid
\* of the sell book, which is > 0.
C11_EmittedOpportunityInvariants ==
    Returned =>
      /\ ev_out.best_sell_price > ev_out.best_buy_price
      /\ ev_out.net_spread > 0
      /\ ev_out.available_volume > 0
      /\ ev_out.available_volume <= BuyAsk.size
      /\ ev_out.available_volume <= SellBid.size
      /\ ev_out.available_volume \in {BuyAsk.size, SellBid.size}

\* C11 witness: an opportunity was returned from books whose top sizes differ
C11_Witness ==
    /\ Returned
    /\ BuyAsk.size # SellBid.size
    /\ Len(ev_in.buy_book.asks) > 1

\* C12: for every returned opportunity gross_spread = sell_price - buy_price
\* and net_spread = sell_price*(1 - sell_taker) - (buy_price + buy_price*
\* buy_taker) - buy_withdrawal - sell_withdrawal with the fee profiles of the
\* buy and the sell exchange; buying on bitFlyer at 5,000,000 (size 0.05) and
\* selling on Coincheck at 5,030,000 (size 0.03) under the default fees gives
\* gross 30,000, volume 0.03 and net 23,120.
C12_GrossAndNetFormula ==
    /\ Returned =>
         /\ ev_out.best_buy_price = BuyAsk.price
         /\ ev_out.best_sell_price = SellBid.price
         /\ ev_out.gross_spread = SellBid.price * 10000 - BuyAsk.price * 10000
         /\ ev_out.net_spread =
              (SellBid.price * 10000 - SellBid.price * SellFee.taker_percent)
                - (BuyAsk.price * 10000 + BuyAsk.price * BuyFee.taker_percent)
                - BuyFee.withdrawal_fee - SellFee.withdrawal_fee
    /\ (/\ Evaluated
        /\ ev_in.fees_arg = NoneVal
        /\ ev_in.buy_ticker = NormalizedTicker("bitFlyer", "BTC_JPY")
        /\ ev_in.sell_ticker = NormalizedTicker("Coincheck", "BTC_JPY")
        /\ ev_in.buy_book.asks = <<Level(500, 5)>>
        /\ ev_in.sell_book.bids = <<Level(503, 3)>>)
         => /\ ev_out # NoneVal
            /\ ev_out.gross_spread = 30000
            /\ ev_out.available_volume = 3
            /\ ev_out.net_spread = 23120

\* C12 witness: the worked example was evaluated and an opportunity returned
C12_Witness ==
    /\ Returned
    /\ ev_in.fees_arg = NoneVal
    /\ ev_in.buy_ticker.exchange = "bitFlyer"
    /\ ev_in.sell_ticker.exchange = "Coincheck"
    /\ BuyAsk = Level(500, 5)
    /\ SellBid = Level(503, 3)
    /\ ev_out.net_spread = 23120

\* C13: for every returned opportunity, net_spread < gross_spread whenever
\* the buy or the sell fee profile has taker_percent > 0 or withdrawal_fee > 0.
C13_FeesStrictlyReduceNet ==
    (Returned
       /\ \/ BuyFee.taker_percent > 0 \/ BuyFee.withdrawal_fee > 0
          \/ SellFee.taker_percent > 0 \/ SellFee.withdrawal_fee > 0)
      => ev_out.net_spread < ev_out.gross_spread

\* the fee map the caller configured: the argument, the built-in table when
\* no argument was given
ConfiguredFees == IF ev_in.fees_arg = NoneVal THEN DEFAULT_FEES ELSE ev_in.fees_arg

\* what the configured map holds for a name, else the shared default profile
ConfiguredProfile(exchange) ==
    IF exchange \in DOMAIN ConfiguredFees THEN ConfiguredFees[exchange]
    ELSE FeeProfile(20, 0)

\* C24: for every exchange name the fee lookup used by evaluate returns the
\* profile the configured fee map holds for that name if it has one, and
\* otherwise the shared default profile (taker 0.002, withdrawal 0), also
\* when the configured fee map is empty.
C24_LookupFollowsConfiguredMap ==
    Returned =>
      /\ ev_out.metadata.buy_fee_percent = ConfiguredProfile(ev_in.buy_ticker.exchange).taker_percent
      /\ ev_out.metadata.buy_withdrawal_fee = ConfiguredProfile(ev_in.buy_ticker.exchange).withdrawal_fee
      /\ ev_out.metadata.sell_fee_percent = ConfiguredProfile(ev_in.sell_ticker.exchange).taker_percent
      /\ ev_out.metadata.sell_withdrawal_fee = ConfiguredProfile(ev_in.sell_ticker.exchange).withdrawal_fee

\* ------------------------------------------------------------------------
\* config/manager.py
\* ------------------------------------------------------------------------
AppConfig(alert_rule, fee_profiles) == [alert_rule |-> alert_rule, fee_profiles |-> fee_profiles]

\* AppConfig(): the defaults used when the file does not exist
DefaultAppConfig == AppConfig(AlertRule(1000, 1, 180), EmptyMap)

\* content of the configuration file: NoneVal when the file does not exist,
\* Malformed when json.load fails on it, otherwise the stored dictionary
Malformed == [kind |-> "malformed"]

JsonFile(alert_rule, fee_profiles) ==
    [kind |-> "json", alert_rule |-> alert_rule, fee_profiles |-> fee_profiles]

from_dict(data) == AppConfig(data.alert_rule, data.fee_profiles)

ConfigFiles ==
    { NoneVal, Malformed,
      JsonFile(AlertRule(1000, 1, 2), EmptyMap),
      JsonFile(AlertRule(25000, 1, 3),
               [e \in {"bitFlyer", "Coincheck"} |->
                   IF e = "bitFlyer" THEN FeeProfile(0, 0) ELSE FeeProfile(20, 120)]) }

\* ConfigManager.load: the cached configuration if there is one, the defaults
\* if the file is missing, RuntimeError if it is malformed.
\* Yields the returned configuration (or Raised) and the new cache.
Raised == [kind |-> "raised"]

load(cached, file) ==
    IF cached # NoneVal THEN [result |-> cached, cache |-> cached]
    ELSE IF file = NoneVal THEN [result |-> DefaultAppConfig, cache |-> DefaultAppConfig]
    ELSE IF file = Malformed THEN [result |-> Raised, cache |-> NoneVal]
    ELSE [result |-> from_dict(file), cache |-> from_dict(file)]

\* slip: the cache is not dropped, so the file is never read again
reload_keeping_cache(cached, file) == load(cached, file)

\* ConfigManager.reload: drop the cache, then load
reload(cached, file) == load(NoneVal, file)

\* ConfigManager.get_config
get_config(cached, file) == load(cached, file)

\* ------------------------------------------------------------------------
\* monitor/pipeline.py
\* ------------------------------------------------------------------------
\* fees = DEFAULT_FEES.copy(); fees.update(config.fee_profiles)
MergedFees(fee_profiles) ==
    [e \in DOMAIN DEFAULT_FEES \cup DOMAIN fee_profiles |->
        IF e \in DOMAIN fee_profiles THEN fee_profiles[e] ELSE DEFAULT_FEES[e]]

\* The clients built by __init__: only BitflyerClient defines `product`
\* (has_product FALSE: reading client.product raises AttributeError).
Client(exchange_name, has_product) ==
    [exchange_name |-> exchange_name, has_product |-> has_product, product |-> "BTC_JPY"]

BuiltinClients ==
    << Client("bitFlyer", TRUE), Client("Coincheck", FALSE), Client("bitbank", FALSE) >>

\* Providers that expose exchange_name and product, as _collect_data expects
ProviderClients ==
    << Client("bitFlyer", TRUE), Client("Coincheck", TRUE), Client("bitbank", TRUE) >>

\* What one client's round of _collect_data meets
LowBook  == [bids |-> <<Level(499, 3)>>, asks |-> <<Level(500, 5)>>]
HighBook == [bids |-> <<Level(503, 3)>>, asks |-> <<Level(504, 5)>>]

FeedOutcomes ==
    { [kind |-> "fetch_ticker_error"],
      [kind |-> "fetch_order_book_error"],
      [kind |-> "ok", book |-> LowBook],
      [kind |-> "ok", book |-> HighBook],
      [kind |-> "persist_ticker_error", book |-> LowBook] }

\* One iteration of the client loop of _collect_data: the data gathered so
\* far, extended by what client i yields.  Every exception is caught.
CollectClient(data, client, outcome) ==
    IF outcome.kind \in {"fetch_ticker_error", "fetch_order_book_error"} THEN data
    ELSE IF ~ client.has_product THEN data
    ELSE
    LET name == client.exchange_name
        tk   == NormalizedTicker(name, client.product)
        ob   == NormalizedOrderBook(name, client.product, outcome.book.bids, outcome.book.asks)
        withTicker == [e \in DOMAIN data.tickers \cup {name} |->
                          IF e = name THEN tk ELSE data.tickers[e]]
    IN  IF outcome.kind = "persist_ticker_error"
        THEN [tickers |-> withTicker, order_books |-> data.order_books]
        ELSE [tickers     |-> withTicker,
              order_books |-> [e \in DOMAIN data.order_books \cup {name} |->
                                  IF e = name THEN ob ELSE data.order_books[e]]]

RECURSIVE CollectUpTo(_, _, _)
CollectUpTo(cls, outcomes, n) ==
    IF n = 0 THEN [tickers |-> EmptyMap, order_books |-> EmptyMap]
    ELSE CollectClient(CollectUpTo(cls, outcomes, n - 1), cls[n], outcomes[n])

\* slip: the first failing client ends the collection
RECURSIVE CollectUntilFailure(_, _, _)
CollectUntilFailure(cls, outcomes, n) ==
    IF n = 0 THEN [tickers |-> EmptyMap, order_books |-> EmptyMap]
    ELSE IF \E j \in 1..n : outcomes[j].kind # "ok"
         THEN CollectUntilFailure(cls, outcomes, n - 1)
         ELSE CollectClient(CollectUntilFailure(cls, outcomes, n - 1), cls[n], outcomes[n])

_collect_data_aborting(cls, outcomes) == CollectUntilFailure(cls, outcomes, Len(cls))

_collect_data(cls, outcomes) == CollectUpTo(cls, outcomes, Len(cls))

\* the exchange names in the iteration order of the tickers dict
\* (insertion order, i.e. the order of the clients)
RECURSIVE TickerOrder(_, _, _)
TickerOrder(cls, tk, n) ==
    IF n = 0 THEN <<>>
    ELSE IF cls[n].exchange_name \in DOMAIN tk
         THEN Append(TickerOrder(cls, tk, n - 1), cls[n].exchange_name)
         ELSE TickerOrder(cls, tk, n - 1)

\* slip: an opportunity put in front of those of equal net_spread
InsertDesc_before_equals(sorted, opp) ==
    LET k == Cardinality({i \in 1..Len(sorted) : sorted[i].net_spread > opp.net_spread})
    IN  SubSeq(sorted, 1, k) \o <<opp>> \o SubSeq(sorted, k + 1, Len(sorted))

\* list.sort(key=net_spread, reverse=True): stable, descending
RECURSIVE InsertDesc(_, _)
InsertDesc(sorted, opp) ==
    IF sorted = <<>> THEN <<opp>>
    ELSE IF sorted[Len(sorted)].net_spread >= opp.net_spread
         THEN Append(sorted, opp)
         ELSE Append(InsertDesc(SubSeq(sorted, 1, Len(sorted) - 1), opp), sorted[Len(sorted)])

RECURSIVE SortDesc(_, _)
SortDesc(opps, n) ==
    IF n = 0 THEN <<>> ELSE InsertDesc(SortDesc(opps, n - 1), opps[n])

\* the double loop of _calculate_spreads over pair number n (row-major)
RECURSIVE PairResults(_, _, _, _, _)
PairResults(fees, order, tk, ob, n) ==
    IF n = 0 THEN <<>>
    ELSE
    LET k         == Len(order)
        buy_name  == order[((n - 1) \div k) + 1]
        sell_name == order[((n - 1) % k) + 1]
        before    == PairResults(fees, order, tk, ob, n - 1)
    IN  IF buy_name = sell_name THEN before
        ELSE IF buy_name \notin DOMAIN ob \/ sell_name \notin DOMAIN ob THEN before
        ELSE LET result == evaluate(fees, tk[buy_name], ob[buy_name], tk[sell_name], ob[sell_name])
             IN  IF result # NoneVal THEN Append(before, result) ELSE before

\* slip: the order books are not looked at before a pair is evaluated
RECURSIVE PairCallsOnTickers(_, _)
PairCallsOnTickers(order, n) ==
    IF n = 0 THEN <<>>
    ELSE
    LET k         == Len(order)
        buy_name  == order[((n - 1) \div k) + 1]
        sell_name == order[((n - 1) % k) + 1]
        before    == PairCallsOnTickers(order, n - 1)
    IN  IF buy_name = sell_name THEN before
        ELSE Append(before, <<buy_name, sell_name>>)

PairCalls_tickers_only(order, ob, n) == PairCallsOnTickers(order, n)

\* the (buy, sell) pairs on which the double loop calls calculator.evaluate,
\* in call order
RECURSIVE PairCalls(_, _, _)
PairCalls(order, ob, n) ==
    IF n = 0 THEN <<>>
    ELSE
    LET k         == Len(order)
        buy_name  == order[((n - 1) \div k) + 1]
        sell_name == order[((n - 1) % k) + 1]
        before    == PairCalls(order, ob, n - 1)
    IN  IF buy_name = sell_name THEN before
        ELSE IF buy_name \notin DOMAIN ob \/ sell_name \notin DOMAIN ob THEN before
        ELSE Append(before, <<buy_name, sell_name>>)

_calculate_spreads(fees, cls, tk, ob) ==
    LET order == TickerOrder(cls, tk, Len(cls))
        found == PairResults(fees, order, tk, ob, Len(order) * Len(order))
    IN  SortDesc(found, Len(found))

\* _send_alerts from opportunity i on: handle is called for each opportunity
\* in turn; the webhook is down during the calls numbered in `down`.
\* Yields last_sent, the clock, the number of handle calls made and whether
\* an exception left the loop.
RECURSIVE _send_alerts(_, _, _, _, _, _, _, _)
_send_alerts(r, chs, ls, opps, i, t, d, down) ==
    IF i > Len(opps) THEN [last_sent |-> ls, clock |-> t, calls |-> i - 1, raised |-> FALSE]
    ELSE
    LET alert == OpportunityAlert(opps[i], t)
        out   == handle(r, chs, ls, alert, t, d, IF i \in down THEN CanFail(chs) ELSE {})
    IN  IF out.returned = "raised"
        THEN [last_sent |-> out.last_sent, clock |-> out.finished, calls |-> i, raised |-> TRUE]
        ELSE _send_alerts(r, chs, out.last_sent, opps, i + 1, out.finished, d, down)

\* observation of the current cycle
\* fetch_failed: exchanges whose fetch_ticker or fetch_order_book raised;
\* fetched: exchanges whose two fetches and normalisation went through
\* all_ok: every client's fetches returned and every snapshot was stored;
\* pairs: the pairs evaluate was called on; persisted, order: the
\* (buy, sell, net_spread) of the opportunities stored and of those handed to
\* router.handle, in the order of the calls
NewCycle ==
    [fetch_failed |-> {}, fetched |-> {}, config_failed |-> FALSE,
     persist_failed |-> FALSE, delivery_failed |-> FALSE, found |-> 0, handled |-> 0,
     all_ok |-> FALSE, pairs |-> <<>>, persisted |-> <<>>, order |-> <<>>]

Entry(opp) == <<opp.buy_exchange, opp.sell_exchange, opp.net_spread>>

Entries(opps, n) == [i \in 1..n |-> Entry(opps[i])]

FetchFailed(cls, outcomes) ==
    { cls[i].exchange_name : i \in {j \in 1..Len(cls) :
        outcomes[j].kind \in {"fetch_ticker_error", "fetch_order_book_error"}} }

Fetched(cls, outcomes) ==
    { cls[i].exchange_name : i \in {j \in 1..Len(cls) :
        /\ outcomes[j].kind \notin {"fetch_ticker_error", "fetch_order_book_error"}
        /\ cls[j].has_product} }

\* The pipelines constructed: the default one (built-in clients, console
\* only; it never finds an opportunity, so its channels are never used) and
\* one with a webhook_url whose clients expose product.
Setups ==
    { [clients |-> BuiltinClients,  channels |-> <<"ConsoleChannel">>],
      [clients |-> ProviderClients, channels |-> <<"ConsoleChannel", "WebhookChannel">>] }

\* MonitoringPipeline(alert_rule=..., webhook_url=..., config_path=...)
\* main(): the rule built from --min-net-spread, --min-volume, --cooldown and
\* handed to the constructor (a rule no configuration file of the model holds)
CliRule == AlertRule(1000, 1, 1)

Init ==
    /\ cfg_file \in ConfigFiles \ {Malformed}
    /\ cm_config = load(NoneVal, cfg_file).cache
    /\ calc_fees = SpreadCalculator(MergedFees(cm_config.fee_profiles))
    /\ rule \in {cm_config.alert_rule, CliRule}
    /\ \E setup \in Setups : clients = setup.clients /\ channels = setup.channels
    /\ last_sent = EmptyMap
    /\ running = FALSE
    /\ pc = "idle"
    /\ now = 0
    /\ tickers = EmptyMap
    /\ order_books = EmptyMap
    /\ opportunities = <<>>
    /\ cyc = NewCycle
    /\ cycles = 0
    /\ stop_pending = FALSE
    /\ handled = NoneVal
    /\ okAt = EmptyMap
    /\ attempts = EmptyMap
    /\ CalcIdle
    /\ SideIdle

InCycle == pc \in {"reload", "collect", "calc", "save", "alert"}

\* run_continuous() is called (in the caller's thread or one started for it)
RunContinuous ==
    /\ pc = "idle"
    /\ pc' = "entered"
    /\ UNCHANGED <<routerVars, now, obsVars, running, clients, cfg_file, cm_config, calc_fees,
                   tickers, order_books, opportunities, cyc, cycles, stop_pending, calcVars, sideVars>>

\* run_continuous: self.running = True
SetRunning ==
    /\ pc = "entered"
    /\ running' = TRUE
    /\ pc' = "test"
    /\ UNCHANGED <<routerVars, now, obsVars, clients, cfg_file, cm_config, calc_fees,
                   tickers, order_books, opportunities, cyc, cycles, stop_pending, calcVars, sideVars>>

\* while self.running:
LoopTest ==
    /\ pc = "test"
    /\ IF running
       THEN /\ cycles < MaxCycles
            /\ pc' = "reload"
            /\ cycles' = cycles + 1
            /\ stop_pending' = FALSE
       ELSE /\ pc' = "returned"
            /\ UNCHANGED <<cycles, stop_pending>>
    /\ UNCHANGED <<routerVars, now, obsVars, running, clients, cfg_file, cm_config,
                   calc_fees, tickers, order_books, opportunities, cyc, calcVars, sideVars>>

\* run_cycle: self.reload_config()
ReloadConfig ==
    /\ pc = "reload"
    /\ LET got == reload(cm_config, cfg_file) IN
       /\ cm_config' = got.cache
       /\ IF got.result = Raised
          THEN /\ pc' = "crashed"
               /\ cyc' = [cyc EXCEPT !.config_failed = TRUE]
               /\ UNCHANGED <<calc_fees, rule>>
          ELSE /\ pc' = "collect"
               /\ calc_fees' = SpreadCalculator(MergedFees(got.result.fee_profiles))
               /\ rule' = got.result.alert_rule
               /\ UNCHANGED cyc
    /\ UNCHANGED <<channels, last_sent, now, obsVars, running, clients, cfg_file,
                   tickers, order_books, opportunities, cycles, stop_pending, calcVars, sideVars>>

\* run_cycle: tickers, order_books = self._collect_data()
CollectData ==
    /\ pc = "collect"
    /\ \E outcomes \in [1..Len(clients) -> FeedOutcomes] :
         LET data == _collect_data(clients, outcomes) IN
         /\ tickers' = data.tickers
         /\ order_books' = data.order_books
         /\ cyc' = [cyc EXCEPT !.fetch_failed = FetchFailed(clients, outcomes),
                                !.fetched = Fetched(clients, outcomes),
                                !.all_ok = \A j \in 1..Len(clients) : outcomes[j].kind = "ok"]
    /\ pc' = "calc"
    /\ UNCHANGED <<routerVars, now, obsVars, running, clients, cfg_file, cm_config,
                   calc_fees, opportunities, cycles, stop_pending, calcVars, sideVars>>

\* run_cycle: opportunities = self._calculate_spreads(tickers, order_books)
CalculateSpreads ==
    /\ pc = "calc"
    /\ opportunities' = _calculate_spreads(calc_fees, clients, tickers, order_books)
    /\ cyc' = [cyc EXCEPT !.found = Len(opportunities'),
                           !.pairs = LET order == TickerOrder(clients, tickers, Len(clients))
                                     IN  PairCalls(order, order_books, Len(order) * Len(order))]
    /\ pc' = "save"
    /\ UNCHANGED <<routerVars, now, obsVars, running, clients, cfg_file, cm_config,
                   calc_fees, tickers, order_books, cycles, stop_pending, calcVars, sideVars>>

\* run_cycle: if opportunities: self._save_opportunities(opportunities)
\* persist_snapshot can raise (OSError on open/write); nothing catches it
SaveOpportunities ==
    /\ pc = "save"
    /\ \E fails \in BOOLEAN :
         IF opportunities # <<>> /\ fails
         THEN /\ pc' = "crashed"
              /\ cyc' = [cyc EXCEPT !.persist_failed = TRUE]
         ELSE /\ pc' = "alert"
              /\ cyc' = [cyc EXCEPT !.persisted = Entries(opportunities, Len(opportunities))]
    /\ UNCHANGED <<routerVars, now, obsVars, running, clients, cfg_file, cm_config,
                   calc_fees, tickers, order_books, opportunities, cycles, stop_pending, calcVars, sideVars>>

\* run_cycle: self._send_alerts(opportunities)
\* the sends of one cycle either return at once or take the longest delay
SendAlerts ==
    /\ pc = "alert"
    /\ \E d \in {0, MaxSendDelay}, down \in SUBSET (1..Len(opportunities)) :
         LET out == _send_alerts(rule, channels, last_sent, opportunities, 1, now, d, down) IN
         /\ out.clock <= MaxTime
         /\ last_sent' = out.last_sent
         /\ now' = out.clock
         /\ cyc' = [cyc EXCEPT !.handled = out.calls, !.delivery_failed = out.raised,
                                !.order = Entries(opportunities, out.calls)]
         /\ IF out.raised
            THEN /\ pc' = "crashed"
                 /\ UNCHANGED <<tickers, order_books, opportunities>>
            ELSE \* run_cycle returns: its local variables are gone
                 /\ pc' = "sleep"
                 /\ tickers' = EmptyMap
                 /\ order_books' = EmptyMap
                 /\ opportunities' = <<>>
    /\ UNCHANGED <<rule, channels, obsVars, running, clients, cfg_file, cm_config,
                   calc_fees, cycles, stop_pending, calcVars, sideVars>>

\* time.sleep(self.interval_seconds), with --interval 1
\* the cycle is over: its observation is cleared
Sleep ==
    /\ pc = "sleep"
    /\ now < MaxTime
    /\ now' = now + 1
    /\ pc' = "test"
    /\ cyc' = NewCycle
    /\ UNCHANGED <<routerVars, obsVars, running, clients, cfg_file, cm_config,
                   calc_fees, tickers, order_books, opportunities, cycles, stop_pending, calcVars, sideVars>>

\* KeyboardInterrupt inside the try block of run_continuous
\* the exception unwinds run_cycle, whose local variables are gone
Interrupt ==
    /\ pc \in {"test", "sleep"} \/ InCycle
    /\ running' = FALSE
    /\ pc' = "returned"
    /\ tickers' = EmptyMap
    /\ order_books' = EmptyMap
    /\ opportunities' = <<>>
    /\ cyc' = NewCycle
    /\ UNCHANGED <<routerVars, now, obsVars, clients, cfg_file, cm_config, calc_fees,
                   cycles, stop_pending, calcVars, sideVars>>

\* stop(), from another thread, once run_continuous has been called
Stop ==
    /\ pc # "idle"
    /\ running \/ pc = "entered"
    /\ running' = FALSE
    /\ stop_pending' = IF pc \in {"returned", "crashed"} THEN stop_pending ELSE TRUE
    /\ UNCHANGED <<routerVars, now, obsVars, pc, clients, cfg_file, cm_config, calc_fees,
                   tickers, order_books, opportunities, cyc, cycles, calcVars, sideVars>>

\* the operator rewrites, damages or removes the configuration file; the
\* file is read by reload_config only, so an edit made during a cycle is the
\* same as that edit made before the next one
EditConfigFile ==
    /\ pc \in {"idle", "test"}
    /\ \E f \in ConfigFiles : f # cfg_file /\ cfg_file' = f
    /\ UNCHANGED <<routerVars, now, obsVars, running, pc, clients, cm_config, calc_fees,
                   tickers, order_books, opportunities, cyc, cycles, stop_pending, calcVars, sideVars>>

Next ==
    \/ RunContinuous
    \/ SetRunning
    \/ LoopTest
    \/ ReloadConfig
    \/ CollectData
    \/ CalculateSpreads
    \/ SaveOpportunities
    \/ SendAlerts
    \/ Sleep
    \/ Interrupt
    \/ Stop
    \/ EditConfigFile

Spec == Init /\ [][Next]_vars

\* ------------------------------------------------------------------------
\* The configuration objects with their identities: the pipeline's
\* ConfigManager (monitor/pipeline.py) and the API server's (api/server.py),
\* two instances over the same config.json
\* ------------------------------------------------------------------------
MaxObjects == 8

\* slip: the API handlers work on the manager the pipeline holds
pipeline_config_manager == "pipeline"

\* api/server.py: config_manager = ConfigManager()
api_config_manager == "api"

ExchangeOrder == <<"bitFlyer", "Coincheck", "bitbank", "Zaif">>

IsIn(S, e) == e \in S

\* the names of S in a fixed order
NamesOf(S) == SelectSeq(ExchangeOrder, LAMBDA e : IsIn(S, e))

Index(seq, x) == CHOOSE i \in DOMAIN seq : seq[i] = x

\* the module-level FeeProfile objects of DEFAULT_FEES: ids 1..3
DefaultFeeIds == [e \in DOMAIN DEFAULT_FEES |-> Index(ExchangeOrder, e)]

DefaultFeeObjects == [i \in 1..3 |-> DEFAULT_FEES[ExchangeOrder[i]]]

\* AppConfig() and AppConfig.from_dict: a new AlertRule object and a new
\* FeeProfile object per entry; yields the heap and the AppConfig of ids
new_config(h, value) ==
    LET names == NamesOf(DOMAIN value.fee_profiles) IN
    [heap   |-> h \o <<value.alert_rule>>
                  \o [i \in 1..Len(names) |-> value.fee_profiles[names[i]]],
     config |-> AppConfig(Len(h) + 1,
                          [e \in DOMAIN value.fee_profiles |-> Len(h) + 1 + Index(names, e)])]

\* ConfigManager.load with objects: the cached AppConfig if there is one,
\* else new objects made from the file (or from the defaults)
load_objects(h, cached, file) ==
    IF cached # NoneVal THEN [heap |-> h, config |-> cached]
    ELSE new_config(h, load(NoneVal, file).result)

\* AppConfig.to_dict written by ConfigManager.save
to_dict(h, config) ==
    JsonFile(h[config.alert_rule],
             [e \in DOMAIN config.fee_profiles |-> h[config.fee_profiles[e]]])

\* fees = DEFAULT_FEES.copy(); fees.update(config.fee_profiles): a new dict
\* holding the same FeeProfile objects
merged_ids(config) ==
    [e \in DOMAIN DefaultFeeIds \cup DOMAIN config.fee_profiles |->
        IF e \in DOMAIN config.fee_profiles THEN config.fee_profiles[e] ELSE DefaultFeeIds[e]]

\* the objects the router and the calculator hold
HeldObjects == {held.rule} \cup {held.fees[e] : e \in DOMAIN held.fees}

\* values the API's callers send
RuleUpdate == [min_net_spread |-> 25000, min_volume |-> 2, cooldown_seconds |-> 3]

FeeUpdate == [taker_percent |-> 0, withdrawal_fee |-> 50]

\* the assignments `obj.field = value` for the fields given (not None)
assign(obj, fields, values) ==
    [f \in DOMAIN obj |-> IF f \in fields THEN values[f] ELSE obj[f]]

\* MonitoringPipeline.__init__ has run: load(), the calculator's fees and
\* the router's rule taken from the loaded configuration
InitConfig ==
    /\ config_json \in ConfigFiles \ {Malformed}
    /\ LET got == load_objects(DefaultFeeObjects, NoneVal, config_json) IN
       /\ heap = got.heap
       /\ managers = [m \in {"pipeline", "api"} |->
                        IF m = "pipeline" THEN got.config ELSE NoneVal]
       /\ held = [rule |-> got.config.alert_rule, fees |-> merged_ids(got.config)]
    /\ cfg_pc = "idle"
    /\ RouterIdle
    /\ PipeIdle
    /\ CalcIdle
    /\ WebIdle

\* run_cycle: reload_config()
PipelineReload ==
    /\ cfg_pc = "idle"
    /\ LET got == load_objects(heap, NoneVal, config_json) IN
       /\ Len(got.heap) <= MaxObjects
       /\ heap' = got.heap
       /\ managers' = [managers EXCEPT !["pipeline"] = got.config]
       /\ held' = [rule |-> got.config.alert_rule, fees |-> merged_ids(got.config)]
    /\ cfg_pc' = "cycle"
    /\ UNCHANGED <<config_json, routerVars, now, obsVars, pipeVars, calcVars, webVars>>

\* run_cycle: the rest of the cycle, which reads the rule and the fees
CycleEnd ==
    /\ cfg_pc = "cycle"
    /\ cfg_pc' = "idle"
    /\ UNCHANGED <<heap, managers, held, config_json,
                   routerVars, now, obsVars, pipeVars, calcVars, webVars>>

\* GET /api/v1/config: config_manager.get_config()
ApiGetConfig ==
    /\ managers[api_config_manager] = NoneVal
    /\ LET got == load_objects(heap, managers[api_config_manager], config_json) IN
       /\ Len(got.heap) <= MaxObjects
       /\ heap' = got.heap
       /\ managers' = [managers EXCEPT ![api_config_manager] = got.config]
    /\ UNCHANGED <<held, cfg_pc, config_json,
                   routerVars, now, obsVars, pipeVars, calcVars, webVars>>

\* PUT /api/v1/config/alert-rule: config_manager.update_alert_rule(...)
ApiUpdateAlertRule ==
    \E fields \in SUBSET DOMAIN RuleUpdate :
        LET got    == load_objects(heap, managers[api_config_manager], config_json)
            id     == got.config.alert_rule
            after  == [got.heap EXCEPT ![id] = assign(got.heap[id], fields, RuleUpdate)]
        IN  /\ Len(after) <= MaxObjects
            /\ heap' = after
            /\ managers' = [managers EXCEPT ![api_config_manager] = got.config]
            /\ config_json' = to_dict(after, got.config)
            /\ UNCHANGED <<held, cfg_pc, routerVars, now, obsVars, pipeVars, calcVars, webVars>>

\* PUT /api/v1/config/fee-profile/{exchange}: config_manager.update_fee_profile(...)
ApiUpdateFeeProfile ==
    \E exchange \in {"bitFlyer", "Zaif"}, fields \in SUBSET DOMAIN FeeUpdate :
        LET got    == load_objects(heap, managers[api_config_manager], config_json)
            absent == exchange \notin DOMAIN got.config.fee_profiles
            h1     == IF absent THEN Append(got.heap, DEFAULT_FEE_PROFILE) ELSE got.heap
            id     == IF absent THEN Len(h1) ELSE got.config.fee_profiles[exchange]
            config == AppConfig(got.config.alert_rule,
                                [e \in DOMAIN got.config.fee_profiles \cup {exchange} |->
                                    IF e = exchange THEN id ELSE got.config.fee_profiles[e]])
            after  == [h1 EXCEPT ![id] = assign(h1[id], fields, FeeUpdate)]
        IN  /\ Len(after) <= MaxObjects
            /\ heap' = after
            /\ managers' = [managers EXCEPT ![api_config_manager] = config]
            /\ config_json' = to_dict(after, config)
            /\ UNCHANGED <<held, cfg_pc, routerVars, now, obsVars, pipeVars, calcVars, webVars>>

NextConfig ==
    \/ PipelineReload
    \/ CycleEnd
    \/ ApiGetConfig
    \/ ApiUpdateAlertRule
    \/ ApiUpdateFeeProfile

SpecConfig == InitConfig /\ [][NextConfig]_vars

\* C25: the alert rule and the fee profiles a cycle reads are replaced as
\* whole objects on reload and never mutated field by field while a cycle is
\* reading them: no ConfigManager operation changes a field of the rule
\* object held by the router or of a fee profile held by the calculator in
\* the middle of a cycle.
C25_HeldObjectsNotMutatedInCycle ==
    [][ (cfg_pc = "cycle" /\ cfg_pc' = "cycle")
          => /\ held' = held
             /\ \A id \in HeldObjects : heap'[id] = heap[id] ]_vars

\* C25 witness: a cycle is reading its rule and fees while the API's manager
\* has changed fields of the rule and of a fee profile it caches and saved
\* them, so that the file differs from what the cycle holds.
C25_Witness ==
    /\ cfg_pc = "cycle"
    /\ managers["api"] # NoneVal
    /\ heap[managers["api"].alert_rule] # heap[held.rule]
    /\ "bitFlyer" \in DOMAIN managers["api"].fee_profiles
    /\ heap[managers["api"].fee_profiles["bitFlyer"]] # heap[held.fees["bitFlyer"]]
    /\ config_json = to_dict(heap, managers["api"])

\* ------------------------------------------------------------------------
\* Properties of the router (checked under SpecRouter)
\* ------------------------------------------------------------------------
HandleStep == handled' # handled

KeyOf(triple) == _key([product |-> triple[1], buy_exchange |-> triple[2], sell_exchange |-> triple[3]])

Reverse(triple) == <<triple[1], triple[3], triple[2]>>

C2_EveryChannelAttempted ==
    [][ (HandleStep /\ handled'.passes
           /\ ~ _under_cooldown(rule, last_sent, KeyOf(handled'.triple), now))
          => handled'.sent = channels ]_vars

\* C3: whenever handle invoked a send for a key, last_sent[key] is the time at
\* which handle finished, even if a send failed.
C3_AttemptRecordsLastSent ==
    [][ (HandleStep /\ handled'.sent # <<>>)
          => /\ KeyOf(handled'.triple) \in DOMAIN last_sent'
             /\ last_sent'[KeyOf(handled'.triple)] = now' ]_vars

\* C8: two alerts that pass the thresholds, with the same dedup key, handled at
\* t1 < t2 under an unchanged rule: if t2 - t1 < cooldown_seconds the first
\* returned True and the second returns False; otherwise both are dispatched.
C8_SecondSuppressedWithinCooldown ==
    [][ (HandleStep /\ handled'.passes /\ handled'.triple \in DOMAIN attempts
           /\ attempts[handled'.triple].finished < now)
          => IF now - attempts[handled'.triple].finished < rule.cooldown_seconds
             THEN /\ attempts[handled'.triple].returned = "True"
                  /\ handled'.returned = "False"
             ELSE handled'.sent # <<>> ]_vars

\* C9: handling an alert for (buy A, sell B) leaves the cooldown entry of
\* (buy B, sell A) as it was, and an alert that passes the thresholds is
\* dispatched unless its own direction had a complete dispatch less than
\* cooldown_seconds ago, however recent the opposite direction's was.
C9_DirectionSensitive ==
    [][ HandleStep =>
          LET t   == handled'.triple
              rev == KeyOf(Reverse(t))
          IN  /\ (rev \in DOMAIN last_sent') = (rev \in DOMAIN last_sent)
              /\ rev \in DOMAIN last_sent => last_sent'[rev] = last_sent[rev]
              /\ (handled'.passes
                    /\ (t \in DOMAIN okAt => now - okAt[t] >= rule.cooldown_seconds))
                   => handled'.sent # <<>> ]_vars

\* C9 witness: an alert was just dispatched while the opposite direction had
\* a complete dispatch less than cooldown_seconds ago.
C9_Witness ==
    /\ handled # NoneVal
    /\ handled.sent # <<>>
    /\ handled.triple \in DOMAIN attempts
    /\ attempts[handled.triple].finished = now
    /\ Reverse(handled.triple) \in DOMAIN okAt
    /\ Reverse(handled.triple) # handled.triple
    /\ now - okAt[Reverse(handled.triple)] < rule.cooldown_seconds

\* C14: handle returns False and invokes no channel whenever the alert's
\* net_spread is below rule.min_net_spread or its available_volume is below
\* rule.min_volume (net 23,120 against 25,000 for one); an alert at or above
\* both thresholds is not rejected by the threshold check: with no dispatch
\* recorded for its key, a send is invoked.
C14_ThresholdRejection ==
    [][ HandleStep =>
          /\ ~ handled'.passes =>
               /\ handled'.returned = "False"
               /\ handled'.sent = <<>>
          /\ (handled'.passes /\ handled'.triple \notin DOMAIN okAt) =>
               handled'.sent # <<>> ]_vars

\* C14 witness: under the rule with min_net_spread 25,000 an alert below a
\* threshold was just rejected although nothing had been dispatched before.
C14_Witness ==
    /\ handled # NoneVal
    /\ ~ handled.passes
    /\ handled.returned = "False"
    /\ rule.min_net_spread = 25000
    /\ last_sent = EmptyMap

\* C15: when handle rejects an alert because its key is under cooldown (a
\* dispatch is recorded for the key and now - its time < cooldown_seconds) it
\* returns False, invokes no channel and leaves last_sent, the rule and the
\* channel list unchanged; the same holds for a threshold rejection.
C15_RejectionChangesNothing ==
    [][ (HandleStep
           /\ \/ ~ handled'.passes
              \/ /\ handled'.triple \in DOMAIN okAt
                 /\ now - okAt[handled'.triple] < rule.cooldown_seconds)
          => /\ handled'.returned = "False"
             /\ handled'.sent = <<>>
             /\ last_sent' = last_sent
             /\ rule' = rule
             /\ channels' = channels ]_vars

\* C15 witness: an alert that passes the thresholds was just rejected, a
\* positive time after the dispatch recorded for its key and inside the cooldown.
C15_Witness ==
    /\ handled # NoneVal
    /\ handled.passes
    /\ handled.returned = "False"
    /\ handled.triple \in DOMAIN okAt
    /\ now > okAt[handled.triple]
    /\ now - okAt[handled.triple] < rule.cooldown_seconds
    /\ last_sent[KeyOf(handled.triple)] = okAt[handled.triple]

\* number of occurrences of x in a sequence
Count(seq, x) == Cardinality({i \in 1..Len(seq) : seq[i] = x})

\* C22: for each alert dispatched by handle, exactly one delivery-count
\* observation is recorded per channel attempted, whatever the channel type:
\* no channel's alerts-sent counter increases by more than one per alert.
C22_OneCountPerChannelAttempted ==
    (handled # NoneVal /\ handled.returned = "True")
      => \A c \in {"ConsoleChannel", "SlackChannelStub", "WebhookChannel"} :
            Count(handled.recorded, c) = Count(handled.sent, c)

\* C26: no operation removes a key from last_sent: across handle calls and
\* rule reloads its key set only grows, a key enters it only by a handle call
\* that dispatched an alert of that key, and it holds no more keys than
\* distinct (product, buy exchange, sell exchange) triples were dispatched.
C26_CooldownMapOnlyGrows ==
    [][ /\ DOMAIN last_sent \subseteq DOMAIN last_sent'
        /\ \A k \in DOMAIN last_sent' \ DOMAIN last_sent :
              /\ HandleStep
              /\ handled'.returned = "True"
              /\ k = KeyOf(handled'.triple)
        /\ DOMAIN last_sent' = {KeyOf(t) : t \in DOMAIN okAt'}
        /\ Cardinality(DOMAIN last_sent') <= Cardinality(DOMAIN okAt') ]_vars

\* C26 witness: after a rule reload the map holds two keys, one of them older
\* than the present rule's cooldown (a stale key that is still there).
C26_Witness ==
    /\ Cardinality(DOMAIN last_sent) >= 2
    /\ rule = AlertRule(25000, 1, 3)
    /\ \E k \in DOMAIN last_sent : now - last_sent[k] >= 3

\* ------------------------------------------------------------------------
\* Properties of the monitoring loop (checked under Spec)
\* ------------------------------------------------------------------------
\* C4: once run_continuous has started, the loop ends only on stop() or a
\* cancellation: no fetch, delivery, persistence or configuration failure
\* inside a cycle ends it.
C4_LoopEndsOnlyOnStop ==
    pc \in {"returned", "crashed"} => (pc = "returned" /\ ~ running)

\* C5: when the ticker or order-book fetch of an exchange fails in a cycle,
\* the cycle goes on; the exchange is in neither tickers nor order_books and
\* in no opportunity, every exchange whose fetches succeeded is kept, and each
\* ordered pair of exchanges with ticker and order book that evaluates to an
\* opportunity is among the opportunities of the cycle.
C5_FetchFailureIsolated ==
    (cyc.fetch_failed # {} /\ pc \in {"calc", "save", "alert", "crashed"})
      => /\ \A x \in cyc.fetch_failed :
               x \notin DOMAIN tickers /\ x \notin DOMAIN order_books
         /\ \A e \in cyc.fetched : e \in DOMAIN tickers
         /\ pc = "crashed" => (cyc.persist_failed \/ cyc.delivery_failed)
         /\ pc # "calc" =>
              /\ \A i \in 1..Len(opportunities) :
                    /\ opportunities[i].buy_exchange \notin cyc.fetch_failed
                    /\ opportunities[i].sell_exchange \notin cyc.fetch_failed
              /\ \A a \in DOMAIN tickers \cap DOMAIN order_books :
                    \A b \in (DOMAIN tickers \cap DOMAIN order_books) \ {a} :
                       LET r == evaluate(calc_fees, tickers[a], order_books[a],
                                         tickers[b], order_books[b])
                       IN  r # NoneVal => \E i \in 1..Len(opportunities) : opportunities[i] = r

\* C5 witness: a fetch failed in this cycle and an opportunity was found
\* among the other exchanges.
C5_Witness ==
    /\ pc = "alert"
    /\ cyc.fetch_failed # {}
    /\ opportunities # <<>>

\* C6: when the reload at the start of a cycle fails on a malformed file, the
\* orchestrator does not crash and the cycle runs on the last loaded
\* configuration.
C6_ReloadFailureDoesNotCrash ==
    cyc.config_failed => (pc # "crashed" /\ cm_config # NoneVal)

\* C7: when persisting an opportunity fails in a cycle, handle is still called
\* for every opportunity of that cycle.
C7_PersistFailureDoesNotPreventAlerts ==
    (cyc.persist_failed /\ ~ InCycle) => cyc.handled = cyc.found

\* the configuration the file holds (what load makes of it)
FileConfig == load(NoneVal, cfg_file).cache

\* C16: in a cycle in which the ticker and order-book fetches of all N
\* configured clients succeed, every configured exchange is in the cycle's
\* tickers and order books, and evaluate is called exactly once for each
\* ordered pair of distinct exchanges (N*(N-1) calls), never for a self-pair.
C16_AllPairsEvaluated ==
    (cyc.all_ok /\ pc \in {"save", "alert"})
      => LET names == {clients[i].exchange_name : i \in 1..Len(clients)}
             N     == Len(clients)
         IN  /\ DOMAIN tickers = names
             /\ DOMAIN order_books = names
             /\ Len(cyc.pairs) = N * (N - 1)
             /\ \A a \in names : \A b \in names \ {a} :
                   Cardinality({i \in 1..Len(cyc.pairs) : cyc.pairs[i] = <<a, b>>}) = 1
             /\ \A i \in 1..Len(cyc.pairs) : cyc.pairs[i][1] # cyc.pairs[i][2]

\* C17: in every cycle the reload comes before any fetch, evaluation,
\* persistence or alert handling, and the alert rule and the fees in use
\* throughout the cycle are the ones the file held at that reload: a change
\* saved before the cycle started is in effect for its threshold and cooldown
\* checks and in the fees of its opportunities.
C17_CycleUsesReloadedConfig ==
    (pc \in {"collect", "calc", "save", "alert", "sleep"}
       \/ (pc = "crashed" /\ ~ cyc.config_failed))
      => /\ cfg_file # Malformed
         /\ cm_config = FileConfig
         /\ rule = FileConfig.alert_rule
         /\ calc_fees = MergedFees(FileConfig.fee_profiles)
         /\ \A i \in 1..Len(opportunities) :
               LET o == opportunities[i]
                   file_fee(e) == IF e \in DOMAIN FileConfig.fee_profiles
                                  THEN FileConfig.fee_profiles[e] ELSE DEFAULT_FEES[e]
               IN  /\ o.metadata.buy_fee_percent = file_fee(o.buy_exchange).taker_percent
                   /\ o.metadata.sell_fee_percent = file_fee(o.sell_exchange).taker_percent
                   /\ o.metadata.buy_withdrawal_fee = file_fee(o.buy_exchange).withdrawal_fee
                   /\ o.metadata.sell_withdrawal_fee = file_fee(o.sell_exchange).withdrawal_fee

\* C17 witness: an earlier cycle dispatched an alert, the file was then given
\* min_net_spread 25,000 and other fees, and the present cycle has found
\* opportunities under that configuration (none of which reaches 25,000).
C17_Witness ==
    /\ pc = "alert"
    /\ opportunities # <<>>
    /\ last_sent # EmptyMap
    /\ rule.min_net_spread = 25000
    /\ calc_fees["bitFlyer"] = FeeProfile(0, 0)

\* position of a (buy, sell) pair in the pair iteration of _calculate_spreads
ClientIndex(e) == CHOOSE i \in 1..Len(clients) : clients[i].exchange_name = e

PairRank(entry) == (ClientIndex(entry[1]) - 1) * Len(clients) + ClientIndex(entry[2])

InOrder(entries) ==
    \A i \in 1..Len(entries) : \A j \in (i + 1)..Len(entries) :
        \/ entries[i][3] > entries[j][3]
        \/ entries[i][3] = entries[j][3] /\ PairRank(entries[i]) < PairRank(entries[j])

IsPrefix(a, b) == Len(a) <= Len(b) /\ a = SubSeq(b, 1, Len(a))

\* C18: the opportunities of a cycle are ordered by net_spread descending,
\* those of equal net_spread in pair-iteration order, and they are persisted
\* and handed to AlertRouter.handle in exactly that order.
C18_SortedStableAndHandledInOrder ==
    /\ pc \in {"save", "alert"} =>
         /\ InOrder(Entries(opportunities, Len(opportunities)))
         /\ Len(opportunities) = cyc.found
    /\ pc = "alert" => cyc.persisted = Entries(opportunities, Len(opportunities))
    /\ pc \in {"alert", "sleep", "crashed"} =>
         /\ InOrder(cyc.persisted)
         /\ IsPrefix(cyc.order, cyc.persisted)
         /\ pc = "sleep" => cyc.order = cyc.persisted

\* C18 witness: a cycle has stored two opportunities of equal net_spread and
\* handed both to the router.
C18_Witness ==
    /\ pc = "sleep"
    /\ cyc.persisted # <<>>
    /\ \E i, j \in 1..Len(cyc.order) :
          /\ i < j
          /\ cyc.order[i][3] = cyc.order[j][3]
          /\ cyc.order[i] # cyc.order[j]

\* C19: once stop() has been called on a pipeline whose run_continuous has
\* been called, no new cycle begins, at whatever point of the start / cycle /
\* sleep sequence the stop arrived.
C19_NoCycleAfterStop ==
    [][ cycles' # cycles => ~ stop_pending ]_vars

\* C20: the running flag tracks the two states: false after construction,
\* true while run_continuous is cycling (no stop requested), and false again
\* whenever run_continuous is no longer cycling, however the loop ended.
C20_RunningFlagTracksState ==
    /\ pc = "idle" => ~ running
    /\ (pc \in {"test", "reload", "collect", "calc", "save", "alert", "sleep"}
          /\ ~ stop_pending) => running
    /\ pc \in {"returned", "crashed"} => ~ running

\* C21: pairwise evaluation of a cycle starts only after every client's fetch
\* of that cycle has returned or failed, and a pair is evaluated only when
\* both exchanges have a ticker and an order book fetched in this cycle; data
\* of an earlier cycle is never used.
C21_EvaluationUsesThisCyclesData ==
    /\ pc \in {"reload", "collect"} =>
         /\ tickers = EmptyMap /\ order_books = EmptyMap
         /\ cyc.pairs = <<>>
    /\ pc \in {"save", "alert"} =>
         /\ \A i \in 1..Len(clients) :
               \/ clients[i].exchange_name \in cyc.fetch_failed
               \/ clients[i].exchange_name \in cyc.fetched
               \/ ~ clients[i].has_product
         /\ DOMAIN tickers \subseteq cyc.fetched
         /\ DOMAIN order_books \subseteq cyc.fetched
         /\ \A i \in 1..Len(cyc.pairs) : \A x \in {cyc.pairs[i][1], cyc.pairs[i][2]} :
               /\ x \in DOMAIN tickers /\ x \in DOMAIN order_books
               /\ x \in cyc.fetched /\ x \notin cyc.fetch_failed
         /\ \A i \in 1..Len(opportunities) :
               /\ opportunities[i].buy_exchange \in cyc.fetched
               /\ opportunities[i].sell_exchange \in cyc.fetched

\* C21 witness: an exchange for which an alert was dispatched in an earlier
\* cycle has failed its fetch in this cycle, and pairs of the other exchanges
\* were evaluated.
C21_Witness ==
    /\ pc = "alert"
    /\ cycles >= 2
    /\ cyc.pairs # <<>>
    /\ \E x \in cyc.fetch_failed : \E y \in {"bitFlyer", "Coincheck", "bitbank"} :
          KeyOf(<<"BTC_JPY", x, y>>) \in DOMAIN last_sent

\* C28: an alert rule passed explicitly to the constructor is the rule the
\* router applies in every cycle of that pipeline; neither the rule of the
\* configuration file nor the configuration defaults replace it.
C28_ConstructorRuleIsKept ==
    [][ rule = CliRule => rule' = CliRule ]_vars

\* C29: a reload that fails on a malformed file leaves the manager's cached
\* configuration unchanged: afterwards get_config still returns the last
\* successfully loaded configuration, without reading the file again.
C29_FailedReloadKeepsCache ==
    [][ (pc = "reload" /\ pc' = "crashed" /\ cyc'.config_failed)
          => /\ cm_config' = cm_config
             /\ get_config(cm_config', cfg_file').result = cm_config ]_vars

====
